---- MODULE Spec2Model ----
(***************************************************************************)
(* A model of the validator node of snarkOS, node/src/validator/mod.rs:    *)
(* the constructor new(), the task registry (spawn, shut_down), the        *)
(* transaction-generator loop, the synchronization loop of                 *)
(* initialize_sync and advance_with_sync_blocks.                           *)
(*                                                                         *)
(* Option<T> values are sequences of length at most one: <<>> is None and  *)
(* <<x>> is Some(x).                                                       *)
(*                                                                         *)
(* A tokio task is cancelled only at an await point: abort() marks the     *)
(* handle, and the task stops when it is suspended or the next time it     *)
(* would suspend.  The actions that resume a task from a suspension are    *)
(* therefore guarded by the handle not being aborted; the code between two *)
(* suspensions runs on, on its own thread, whatever other threads do.      *)
(***************************************************************************)
EXTENDS Integers, Sequences, FiniteSets, TLC

\* ------------------------------------------------------------- bounds
MaxDev == 1
NumUserTasks == 1
MaxHeight == 3
MaxReqHeight == 1
NumPeers == 2

UserTaskNames == <<"u1", "u2", "u3">>
UserTasks == {UserTaskNames[i] : i \in 1..NumUserTasks}
TaskIds == {"tx", "sync"} \cup UserTasks
Callers == {"signal", "caller"}
PeerNames == <<"A", "B", "C">>
Peers == {PeerNames[i] : i \in 1..NumPeers}
Heights == 1..MaxHeight
ReqHeights == 1..MaxReqHeight
\* sync_ips: the peers of one block request, in the order they are tried
PeerLists == {SubSeq(PeerNames, 1, n) : n \in 1..NumPeers}
\* How the ledger will treat a block: "ok", "invalid" (check_next_block returns Err)
\* or "append_err" (advance_to_next_block returns Err).
Fates == {"ok", "invalid", "append_err"}
\* The hash of the block of height h: blocks of different heights differ in hash.
BlockHash(h) == <<"hash", h>>
DevValues == {<<>>} \cup {<<d>> : d \in 0..MaxDev}

\* ------------------------------------------------------------- state
VARIABLES
    dev,            \* new()'s dev: Option<u16> (cdn and rest_ip are drawn where new() reads them)
    new_pc,         \* the constructor's next step, "ok" or "err"
    new_err,        \* the step whose error new() returned, or "none"
    signal_node,    \* the signal handler's slot holds the node
    shutdown,       \* Validator::shutdown, the AtomicBool
    handles,        \* Validator::handles, the Vec of JoinHandles (task ids)
    task_st,        \* per task: "unspawned", "running", "cancelled", "finished"
    handle_aborted, \* per task: abort() took effect on its handle
    handles_lock,   \* the holder of the Mutex of Validator::handles (Option)
    router_st,      \* "none", "up", "stopping", "down"
    consensus_st,   \* "none", "created", "running", "stopping", "down"
    sd_pc,          \* per caller of shut_down: its next step
    sd_again,       \* per caller: its call began after a call of shut_down had returned
    sd_pre,         \* per caller: the handles registered when its call began
    sd_log,         \* per caller: the steps its current call has done
    tx_pc,          \* the transaction loop: "off", "start" (spawned, not polled yet), "sleep",
                    \* "execute" or "broadcast"
    tx_last,        \* what the loop's last cycle did: "none", "skip", "exec_err", "exec_ok"
    tx_executed,    \* the loop has called execute
    tx_began_set,   \* the shutdown flag was true when the loop's current iteration began
                    \* (FALSE again once the handle is aborted: the loop takes no further step)
    tx_broadcast,   \* the loop has called unconfirmed_transaction
    latest_height,  \* Ledger::latest_height()
    requests,       \* SyncPool: per height, the in-flight request's sync_ips (Option)
    responses,      \* SyncPool: per height, the queued block response (Option)
    canon,          \* SyncPool: per height, the canon locator's hash (Option)
    sync_pc,        \* the sync loop: "off", "start" (spawned, not polled yet), "top", "sleep",
                    \* "for", "send", "sleep10", "done"
    block_requests, \* the sync loop's block_requests still to process in this cycle
    cur_req,        \* the request whose message is being sent (Option)
    ips_left,       \* the sync_ips the message was not yet sent to
    cyc_log,        \* what the sync loop did in the current cycle, in order
    cyc_proposed,   \* what prepare_block_requests returned for the current cycle
    open_count,     \* per height: registrations the loop made and nothing closed yet
    sync_late,      \* the sync loop began a dispatch with the shutdown flag already true
    adv_pc,         \* advance_with_sync_blocks: "idle", "pop", "check", "append", "canon"
    current_height, \* advance_with_sync_blocks' local current_height
    adv_block,      \* the block popped by advance_with_sync_blocks (Option)
    adv_start,      \* latest_height as read when the advancement began
    adv_committed,  \* the blocks the current advancement appended, in order
    adv_run,        \* the run of valid contiguous responses when the advancement began
    adv_quiet,      \* no response arrived and no one else appended since it began
    adv_last        \* how the advancement that just returned ended ("none" otherwise)

cfgVars == <<dev>>
newVars == <<new_pc, new_err, signal_node>>
taskVars == <<handles, task_st, handle_aborted, handles_lock>>
subsysVars == <<router_st, consensus_st>>
sdVars == <<sd_pc, sd_again, sd_pre, sd_log>>
txVars == <<tx_pc, tx_last, tx_executed, tx_broadcast, tx_began_set>>

nodeVars == <<cfgVars, newVars, shutdown, taskVars, subsysVars, sdVars, txVars>>
poolVars == <<requests, responses, canon>>
syncVars == <<sync_pc, block_requests, cur_req, ips_left, cyc_log, cyc_proposed, open_count, sync_late>>
advVars == <<adv_pc, current_height, adv_block, adv_start, adv_committed, adv_run, adv_quiet, adv_last>>
\* the state the node built by new() never touches
syncSide == <<latest_height, poolVars, syncVars, advVars>>

\* ------------------------------------------------------------- helpers
Range(s) == {s[i] : i \in 1..Len(s)}

\* A handle is stopped when abort() took effect on it or its task is over.
Stopped(t) == handle_aborted[t] \/ task_st[t] \in {"cancelled", "finished"}
\* What a caller of shut_down can observe of the flag and the handles.
Observable == <<shutdown, handles, task_st, handle_aborted>>

\* ------------------------------------------------------------- Init
InitNode ==
    /\ dev \in DevValues
    /\ new_pc = "ledger"
    /\ new_err = "none"
    /\ signal_node = FALSE
    /\ shutdown = FALSE
    /\ handles = <<>>
    /\ task_st = [t \in TaskIds |-> "unspawned"]
    /\ handle_aborted = [t \in TaskIds |-> FALSE]
    /\ handles_lock = <<>>
    /\ router_st = "none"
    /\ consensus_st = "none"
    /\ sd_pc = [c \in Callers |-> "idle"]
    /\ sd_again = [c \in Callers |-> FALSE]
    /\ sd_pre = [c \in Callers |-> {}]
    /\ sd_log = [c \in Callers |-> <<>>]
    /\ tx_pc = "off"
    /\ tx_last = "none"
    /\ tx_executed = FALSE
    /\ tx_broadcast = FALSE
    /\ tx_began_set = FALSE

\* The ledger at genesis, an empty sync pool, no sync loop, no advancement.
InitSyncSide ==
    /\ latest_height = 0
    /\ requests = [h \in Heights |-> <<>>]
    /\ responses = [h \in Heights |-> <<>>]
    /\ canon = [h \in 0..MaxHeight |-> <<>>]
    /\ sync_pc = "off"
    /\ block_requests = <<>>
    /\ cur_req = <<>>
    /\ ips_left = <<>>
    /\ cyc_log = <<>>
    /\ cyc_proposed = <<>>
    /\ open_count = [h \in Heights |-> 0]
    /\ sync_late = FALSE
    /\ adv_pc = "idle"
    /\ current_height = 0
    /\ adv_block = <<>>
    /\ adv_start = 0
    /\ adv_committed = <<>>
    /\ adv_run = 0
    /\ adv_quiet = TRUE
    /\ adv_last = "none"

\* ------------------------------------------------------------- new()
\* A step of new() that returned Err: `?` returns it to the caller at once.
Fail(step) ==
    /\ new_pc' = "err"
    /\ new_err' = step

\* The step new() runs after `step` succeeded; `some` tells whether the Option the
\* next step depends on (cdn after the ledger, rest_ip after the transaction pool)
\* is Some.
NewAfter(step, some) ==
    CASE step = "ledger" -> IF some THEN "cdn" ELSE "consensus_new"
      [] step = "cdn" -> "consensus_new"
      [] step = "consensus_new" -> "consensus_run"
      [] step = "consensus_run" -> "router"
      [] step = "router" -> "node"
      [] step = "node" -> "txpool"
      [] step = "txpool" -> IF some THEN "rest" ELSE "routing"
      [] step = "rest" -> "routing"
      [] step = "routing" -> "publish"
      [] step = "publish" -> "ok"

\* Ledger::load(genesis, dev)?, then `if let Some(base_url) = cdn`
NewLedger ==
    /\ new_pc = "ledger"
    /\ \E ok \in BOOLEAN, cdn \in BOOLEAN :
        IF ok THEN new_pc' = NewAfter("ledger", cdn) /\ new_err' = new_err ELSE Fail("ledger")
    /\ UNCHANGED <<syncSide, cfgVars, signal_node, shutdown, taskVars, subsysVars, sdVars, txVars>>

\* sync_ledger_with_cdn(..).await, when cdn is Some
NewCdn ==
    /\ new_pc = "cdn"
    /\ \E ok \in BOOLEAN :
        IF ok THEN new_pc' = NewAfter("cdn", FALSE) /\ new_err' = new_err ELSE Fail("cdn")
    /\ UNCHANGED <<syncSide, cfgVars, signal_node, shutdown, taskVars, subsysVars, sdVars, txVars>>

\* Consensus::new(..)?
NewConsensus ==
    /\ new_pc = "consensus_new"
    /\ \E ok \in BOOLEAN :
        IF ok
        THEN new_pc' = NewAfter("consensus_new", FALSE) /\ new_err' = new_err /\ consensus_st' = "created"
        ELSE Fail("consensus_new") /\ consensus_st' = consensus_st
    /\ UNCHANGED <<syncSide, cfgVars, signal_node, shutdown, taskVars, router_st, sdVars, txVars>>

\* consensus.run(..).await?
NewConsensusRun ==
    /\ new_pc = "consensus_run"
    /\ \E ok \in BOOLEAN :
        IF ok
        THEN new_pc' = NewAfter("consensus_run", FALSE) /\ new_err' = new_err /\ consensus_st' = "running"
        ELSE Fail("consensus_run") /\ consensus_st' = consensus_st
    /\ UNCHANGED <<syncSide, cfgVars, signal_node, shutdown, taskVars, router_st, sdVars, txVars>>

\* Router::new(..).await?
NewRouter ==
    /\ new_pc = "router"
    /\ \E ok \in BOOLEAN :
        IF ok
        THEN new_pc' = NewAfter("router", FALSE) /\ new_err' = new_err /\ router_st' = "up"
        ELSE Fail("router") /\ router_st' = router_st
    /\ UNCHANGED <<syncSide, cfgVars, signal_node, shutdown, taskVars, consensus_st, sdVars, txVars>>

\* shutdown: Default::default(), an AtomicBool holding false
\* (a faulty variant the properties must reject: the flag starts true)
ShutdownDefaultMut == TRUE
ShutdownDefault == FALSE

\* let mut node = Self { .., handles: Default::default(), shutdown: Default::default() }
NewNode ==
    /\ new_pc = "node"
    /\ new_pc' = NewAfter("node", FALSE)
    /\ handles' = <<>>
    /\ shutdown' = ShutdownDefault
    /\ UNCHANGED <<syncSide, cfgVars, new_err, signal_node, task_st, handle_aborted, handles_lock,
                   subsysVars, sdVars, txVars>>

\* The holder of the lock after a statement that took it with `self.handles.lock()`
\* as a temporary: the guard is dropped at the end of the statement.
\* (a faulty variant the properties must reject: the guard outlives the statement)
GuardAfterStatementMut(holder) == <<holder>>
GuardAfterStatement(holder) == <<>>

\* self.handles.lock().push(tokio::spawn(future)): with the lock taken, the task is
\* started and its handle pushed; the statement has no await.
Register(t) ==
    /\ handles_lock = <<>>
    /\ handles_lock' = GuardAfterStatement(t)
    /\ handles' = Append(handles, t)
    /\ task_st' = [task_st EXCEPT ![t] = "running"]
    /\ handle_aborted' = [handle_aborted EXCEPT ![t] = FALSE]

\* node.initialize_transaction_pool(dev)?: the locator is parsed (the only step that
\* can return Err) and then the transaction loop is spawned; the runtime polls the
\* task later.
NewTxPool ==
    /\ new_pc = "txpool"
    /\ \E ok \in BOOLEAN, rest_ip \in BOOLEAN :
        IF ok
        THEN /\ new_pc' = NewAfter("txpool", rest_ip)
             /\ new_err' = new_err
             /\ Register("tx")
             /\ tx_pc' = "start"
        ELSE /\ Fail("txpool")
             /\ UNCHANGED <<taskVars, tx_pc>>
    /\ UNCHANGED <<syncSide, cfgVars, signal_node, shutdown, subsysVars, sdVars, tx_last, tx_executed, tx_broadcast,
                   tx_began_set>>

\* Rest::start(..)?, when rest_ip is Some
NewRest ==
    /\ new_pc = "rest"
    /\ \E ok \in BOOLEAN :
        IF ok
        THEN new_pc' = NewAfter("rest", FALSE) /\ new_err' = new_err
        ELSE Fail("rest")
    /\ UNCHANGED <<syncSide, cfgVars, signal_node, shutdown, taskVars, subsysVars, sdVars, txVars>>

\* The body of initialize_sync(): the canon locators of the ledger are inserted and
\* the sync loop is spawned, its handle pushed under the lock.
StartSync ==
    /\ canon' = [canon EXCEPT ![0] = <<BlockHash(0)>>]
    /\ Register("sync")
    /\ sync_pc' = "start"

\* (a faulty variant the properties must reject: the constructor calls initialize_sync)
SyncAtConstructionMut == TRUE

\* "// node.initialize_sync()?;": the call in new() is commented out.
SyncAtConstruction == FALSE

\* (the commented-out initialize_sync call, then) node.initialize_routing().await
NewRouting ==
    /\ new_pc = "routing"
    /\ new_pc' = NewAfter("routing", FALSE)
    /\ IF SyncAtConstruction
       THEN StartSync
       ELSE UNCHANGED <<canon, taskVars, sync_pc>>
    /\ UNCHANGED <<cfgVars, new_err, signal_node, shutdown, subsysVars, sdVars, txVars, latest_height,
                   requests, responses, block_requests, cur_req, ips_left, cyc_log, cyc_proposed, open_count, sync_late, advVars>>

\* let _ = signal_node.set(node.clone()); Ok(node)
NewPublish ==
    /\ new_pc = "publish"
    /\ new_pc' = NewAfter("publish", FALSE)
    /\ signal_node' = TRUE
    /\ UNCHANGED <<syncSide, cfgVars, new_err, shutdown, taskVars, subsysVars, sdVars, txVars>>

New ==
    \/ NewLedger
    \/ NewCdn
    \/ NewConsensus
    \/ NewConsensusRun
    \/ NewRouter
    \/ NewNode
    \/ NewTxPool
    \/ NewRest
    \/ NewRouting
    \/ NewPublish

\* ------------------------------------------------------------- the transaction loop
\* `if let Some(dev) = dev { if dev != 0 { continue; } }`
\* (a faulty variant the properties must reject: every dev index skips)
DevSkipsMut(d) == d # <<>>
DevSkips(d) == d # <<>> /\ d[1] # 0

\* `Err(error) => { error!(..); continue; }`: where the loop goes on after execute
\* returned Err, the sleep of the next iteration.
\* (a faulty variant the properties must reject: the cycle goes on to the broadcast)
OnExecuteErrMut == "broadcast"
OnExecuteErr == "sleep"

\* The first poll of the task: "Starting transaction pool..." is logged and the first
\* iteration of the loop begins, at its sleep.  A task aborted before is not polled.
TxStart ==
    /\ task_st["tx"] = "running"
    /\ ~handle_aborted["tx"]
    /\ tx_pc = "start"
    /\ tx_pc' = "sleep"
    /\ tx_began_set' = shutdown
    /\ UNCHANGED <<syncSide, cfgVars, newVars, shutdown, taskVars, subsysVars, sdVars, tx_last, tx_executed,
                   tx_broadcast>>

\* The sleep of one second returns: the dev check, then vm().execute(..) is called.
TxWake ==
    /\ task_st["tx"] = "running"
    /\ ~handle_aborted["tx"]
    /\ tx_pc = "sleep"
    /\ IF DevSkips(dev)
       THEN /\ tx_last' = "skip"
            /\ tx_began_set' = shutdown
            /\ UNCHANGED <<tx_pc, tx_executed>>
       ELSE /\ tx_pc' = "execute"
            /\ tx_executed' = TRUE
            /\ UNCHANGED <<tx_last, tx_began_set>>
    /\ UNCHANGED <<syncSide, cfgVars, newVars, shutdown, taskVars, subsysVars, sdVars, tx_broadcast>>

\* vm().execute(..) returns.  Ok(transaction): unconfirmed_transaction(..) is called
\* at once, there being no await in between, aborted handle or not.  Err: continue.
TxExecute ==
    /\ task_st["tx"] = "running"
    /\ tx_pc = "execute"
    /\ \E executed \in BOOLEAN :
        IF executed
        THEN tx_pc' = "broadcast" /\ tx_last' = "exec_ok" /\ tx_began_set' = tx_began_set
        ELSE tx_pc' = OnExecuteErr /\ tx_last' = "exec_err" /\ tx_began_set' = shutdown
    /\ tx_broadcast' = (tx_broadcast \/ tx_pc' = "broadcast")
    /\ UNCHANGED <<syncSide, cfgVars, newVars, shutdown, taskVars, subsysVars, sdVars, tx_executed>>

\* self_.unconfirmed_transaction(..).await returns; its outcome is only logged.  A
\* future that completes without suspending returns to a task whose handle is
\* aborted as well; the task then stops at the sleep.
TxBroadcast ==
    /\ task_st["tx"] = "running"
    /\ tx_pc = "broadcast"
    /\ \E accepted \in BOOLEAN :
        /\ tx_pc' = "sleep"
        /\ tx_began_set' = shutdown
    /\ UNCHANGED <<syncSide, cfgVars, newVars, shutdown, taskVars, subsysVars, sdVars, tx_last, tx_executed,
                   tx_broadcast>>

\* ------------------------------------------------------------- tasks
\* The futures that callers spawn are named in the order of their spawning: t is
\* the next one when it and no later one is unspawned and every earlier one was spawned.
NextToSpawn(t) ==
    \E i \in 1..NumUserTasks :
        /\ t = UserTaskNames[i]
        /\ task_st[t] = "unspawned"
        /\ \A j \in 1..(i - 1) : task_st[UserTaskNames[j]] # "unspawned"

\* Validator::spawn, called by a holder of the constructed node.
Spawn(t) ==
    /\ new_pc = "ok"
    /\ NextToSpawn(t)
    /\ Register(t)
    /\ UNCHANGED <<syncSide, cfgVars, newVars, shutdown, subsysVars, sdVars, txVars>>

\* A spawned future runs to its end.
UserFinish(t) ==
    /\ task_st[t] = "running"
    /\ task_st' = [task_st EXCEPT ![t] = "finished"]
    /\ UNCHANGED <<syncSide, cfgVars, newVars, shutdown, handles, handle_aborted, handles_lock,
                   subsysVars, sdVars, txVars>>

\* The task is suspended at an await, or was not polled yet: the sleeps of the two
\* loops and the await of the broadcast; execute, the sends and the pool calls have
\* none.  Nothing is known of the futures that callers spawn.
AtAwait(t) ==
    CASE t = "tx" -> tx_pc \in {"start", "sleep", "broadcast"}
      [] t = "sync" -> sync_pc \in {"start", "sleep", "sleep10"}
      [] OTHER -> TRUE

\* The runtime drops an aborted task at its await point; no iteration of its loop
\* is under way any more.
Cancel(t) ==
    /\ task_st[t] = "running"
    /\ handle_aborted[t]
    /\ AtAwait(t)
    /\ task_st' = [task_st EXCEPT ![t] = "cancelled"]
    /\ tx_began_set' = (tx_began_set /\ t # "tx")
    /\ UNCHANGED <<syncSide, cfgVars, newVars, shutdown, handles, handle_aborted, handles_lock,
                   subsysVars, sdVars, tx_pc, tx_last, tx_executed, tx_broadcast>>

\* ------------------------------------------------------------- shut_down()
\* The order of the steps of shut_down.
\* (a faulty variant the properties must reject: the consensus shut down before the router)
SdAfterMut(step) ==
    CASE step = "store" -> "abort"
      [] step = "abort" -> "consensus"
      [] step = "consensus" -> "consensus_wait"
      [] step = "consensus_wait" -> "router"
      [] step = "router" -> "router_wait"
      [] step = "router_wait" -> "done"
SdAfter(step) ==
    CASE step = "store" -> "abort"
      [] step = "abort" -> "router"
      [] step = "router" -> "router_wait"
      [] step = "router_wait" -> "consensus"
      [] step = "consensus" -> "consensus_wait"
      [] step = "consensus_wait" -> "done"

SdAdvance(c, step) ==
    /\ sd_pc' = [sd_pc EXCEPT ![c] = SdAfter(step)]
    /\ sd_log' = [sd_log EXCEPT ![c] = Append(@, step)]

\* A call of shut_down: by the signal handler once the node is in its slot, or by
\* the caller that new() returned the node to.
SdCall(c) ==
    /\ sd_pc[c] \in {"idle", "done"}
    /\ IF c = "signal" THEN signal_node ELSE new_pc = "ok"
    /\ sd_pc' = [sd_pc EXCEPT ![c] = "store"]
    /\ sd_again' = [sd_again EXCEPT ![c] = \E d \in Callers : sd_pc[d] = "done"]
    /\ sd_pre' = [sd_pre EXCEPT ![c] = Range(handles)]
    /\ sd_log' = [sd_log EXCEPT ![c] = <<>>]
    /\ UNCHANGED <<syncSide, cfgVars, newVars, shutdown, taskVars, subsysVars, txVars>>

\* self.shutdown.store(true, Ordering::Relaxed)
\* (a faulty variant the properties must reject: the flag toggled rather than set)
ShutdownStoreMut(cur) == ~cur
ShutdownStore(cur) == TRUE

SdStore(c) ==
    /\ sd_pc[c] = "store"
    /\ shutdown' = ShutdownStore(shutdown)
    /\ SdAdvance(c, "store")
    /\ UNCHANGED <<syncSide, cfgVars, newVars, taskVars, subsysVars, sd_again, sd_pre, txVars>>

\* handle.abort(): nothing happens to a task that is over.
AbortHandle(st, aborted) == IF st = "running" THEN TRUE ELSE aborted

\* The handles the abort pass visits: self.handles.lock().iter()
\* (a faulty variant the properties must reject: only the last handle visited)
AbortTargetsMut(hs) == IF hs = <<>> THEN {} ELSE {hs[Len(hs)]}
AbortTargets(hs) == Range(hs)

\* The handle set after the abort pass: iter() borrows the handles, none is removed.
\* (a faulty variant the properties must reject: the pass drains the set)
HandlesAfterAbortMut(hs) == <<>>
HandlesAfterAbort(hs) == hs

SdAbort(c) ==
    /\ sd_pc[c] = "abort"
    /\ handles' = HandlesAfterAbort(handles)
    /\ handles_lock = <<>>
    /\ handles_lock' = GuardAfterStatement(c)
    /\ handle_aborted' =
        [t \in TaskIds |->
            IF t \in AbortTargets(handles)
            THEN AbortHandle(task_st[t], handle_aborted[t])
            ELSE handle_aborted[t]]
    /\ SdAdvance(c, "abort")
    /\ UNCHANGED <<syncSide, cfgVars, newVars, shutdown, task_st, subsysVars, sd_again, sd_pre, txVars>>

\* self.router.shut_down().await begins
SdRouter(c) ==
    /\ sd_pc[c] = "router"
    /\ router_st' = IF router_st = "down" THEN "down" ELSE "stopping"
    /\ SdAdvance(c, "router")
    /\ UNCHANGED <<syncSide, cfgVars, newVars, shutdown, taskVars, consensus_st, sd_again, sd_pre, txVars>>

\* self.router.shut_down().await returns
SdRouterDone(c) ==
    /\ sd_pc[c] = "router_wait"
    /\ router_st' = "down"
    /\ SdAdvance(c, "router_wait")
    /\ UNCHANGED <<syncSide, cfgVars, newVars, shutdown, taskVars, consensus_st, sd_again, sd_pre, txVars>>

\* self.consensus.shut_down().await begins
SdConsensus(c) ==
    /\ sd_pc[c] = "consensus"
    /\ consensus_st' = IF consensus_st = "down" THEN "down" ELSE "stopping"
    /\ SdAdvance(c, "consensus")
    /\ UNCHANGED <<syncSide, cfgVars, newVars, shutdown, taskVars, router_st, sd_again, sd_pre, txVars>>

\* self.consensus.shut_down().await returns, and so does shut_down
SdConsensusDone(c) ==
    /\ sd_pc[c] = "consensus_wait"
    /\ consensus_st' = "down"
    /\ SdAdvance(c, "consensus_wait")
    /\ UNCHANGED <<syncSide, cfgVars, newVars, shutdown, taskVars, router_st, sd_again, sd_pre, txVars>>

\* The steps of caller c's calls of shut_down.
ShutDownBy(c) ==
    \/ SdCall(c)
    \/ SdStore(c)
    \/ SdAbort(c)
    \/ SdRouter(c)
    \/ SdRouterDone(c)
    \/ SdConsensus(c)
    \/ SdConsensusDone(c)

ShutDown == \E c \in Callers : ShutDownBy(c)

Tasks ==
    \/ \E t \in UserTasks : Spawn(t)
    \/ \E t \in UserTasks : UserFinish(t)
    \/ \E t \in UserTasks \cup {"tx"} : Cancel(t)

\* ------------------------------------------------------------- the SyncPool
\* The sequence of the requests f proposes (f[h] is Some(sync_ips) or None), by
\* increasing height, from height h on.
RECURSIVE RequestsFrom(_, _)
RequestsFrom(f, h) ==
    IF h \notin DOMAIN f THEN <<>>
    ELSE IF f[h] = <<>> THEN RequestsFrom(f, h + 1)
    ELSE <<[height |-> h, sync_ips |-> f[h][1]]>> \o RequestsFrom(f, h + 1)

\* prepare_block_requests(): an ordered sequence of (height, sync_ips), for any heights
PrepareOver(hs) ==
    {RequestsFrom(f, 1) : f \in [hs -> {<<>>} \cup {<<l>> : l \in PeerLists}]}

PrepareBlockRequests == PrepareOver(ReqHeights)

\* insert_block_request(height, ..): Ok exactly when no request for height is in flight
InsertBlockRequest(reqs, h) == reqs[h] = <<>>

\* remove_block_request(height)
RemoveBlockRequest(reqs, h) == [reqs EXCEPT ![h] = <<>>]

\* The pool or the ledger changes under the advancement: what is recorded of an
\* undisturbed advancement no longer applies, and of one that returned nothing is kept.
Disturb ==
    /\ adv_quiet' = FALSE
    /\ adv_run' = 0
    /\ adv_last' = "none"
    /\ IF adv_pc = "idle"
       THEN adv_start' = 0 /\ adv_committed' = <<>>
       ELSE UNCHANGED <<adv_start, adv_committed>>
    /\ UNCHANGED <<adv_pc, current_height, adv_block>>

\* A peer's block response is queued under a height that holds none.
DeliverResponse(h, b) ==
    /\ new_pc = "ok"
    /\ responses[h] = <<>>
    /\ responses' = [responses EXCEPT ![h] = <<b>>]
    /\ Disturb
    /\ UNCHANGED <<nodeVars, latest_height, requests, canon, syncVars>>

\* The consensus engine appends the next block to the ledger it shares with the node.
ConsensusAppend ==
    /\ consensus_st = "running"
    /\ latest_height < MaxHeight
    /\ latest_height' = latest_height + 1
    /\ Disturb
    /\ UNCHANGED <<nodeVars, poolVars, syncVars>>

\* ------------------------------------------------------------- initialize_sync()
\* A call of initialize_sync() on the built node.
InitializeSync ==
    /\ new_pc = "ok"
    /\ sync_pc = "off"
    /\ StartSync
    /\ UNCHANGED <<cfgVars, newVars, shutdown, subsysVars, sdVars, txVars, latest_height,
                   requests, responses, block_requests, cur_req, ips_left, cyc_log, cyc_proposed, open_count, sync_late, advVars>>

Log(ev, h, p, ips) == [ev |-> ev, height |-> h, peer |-> p, ips |-> ips]

\* validator.shutdown.load(Ordering::Relaxed)
\* (a faulty variant the properties must reject: the flag is not read)
ShutdownLoadMut(flag) == FALSE
ShutdownLoad(flag) == flag

\* if validator.shutdown.load(Ordering::Relaxed) { break; }
\* When another iteration begins, what is recorded of the last one is dropped.
SyncTop ==
    /\ task_st["sync"] = "running"
    /\ sync_pc \in {"start", "top"}
    /\ sync_pc = "start" => ~handle_aborted["sync"]
    /\ IF ShutdownLoad(shutdown)
       THEN /\ sync_pc' = "done"
            /\ task_st' = [task_st EXCEPT !["sync"] = "finished"]
            /\ UNCHANGED <<cyc_log, cyc_proposed>>
       ELSE /\ sync_pc' = "sleep"
            /\ cyc_log' = <<>>
            /\ cyc_proposed' = <<>>
            /\ UNCHANGED task_st
    /\ UNCHANGED <<cfgVars, newVars, shutdown, handles, handle_aborted, handles_lock, subsysVars, sdVars, txVars,
                   latest_height, poolVars, block_requests, cur_req, ips_left, open_count, sync_late, advVars>>

\* The sleep of one second returns, then prepare_block_requests() returns one of
\* proposals.
SyncPrepareFrom(proposals) ==
    /\ task_st["sync"] = "running"
    /\ ~handle_aborted["sync"]
    /\ sync_pc = "sleep"
    /\ \E reqs \in proposals : block_requests' = reqs /\ cyc_proposed' = reqs
    /\ cyc_log' = <<>>
    /\ sync_pc' = "for"
    /\ sync_late' = (sync_late \/ shutdown)
    /\ UNCHANGED <<nodeVars, latest_height, poolVars, cur_req, ips_left, open_count, advVars>>

SyncPrepare == SyncPrepareFrom(PrepareBlockRequests)

\* if result.is_ok() { .. }
\* (a faulty variant the properties must reject: the result of the insertion ignored)
ResultIsOkMut(result) == TRUE
ResultIsOk(result) == result

\* The next (height, sync_ips) of block_requests: insert_block_request, and when it
\* returned Ok the message is built and the sends begin.
SyncInsert ==
    /\ task_st["sync"] = "running"
    /\ sync_pc = "for"
    /\ block_requests # <<>>
    /\ LET r == Head(block_requests)
           h == r.height
           result == InsertBlockRequest(requests, h)
       IN /\ block_requests' = Tail(block_requests)
          /\ requests' = IF result THEN [requests EXCEPT ![h] = <<r.sync_ips>>] ELSE requests
          /\ IF ResultIsOk(result)
             THEN /\ cur_req' = <<r>>
                  /\ ips_left' = r.sync_ips
                  /\ sync_pc' = "send"
                  /\ open_count' = [open_count EXCEPT ![h] = @ + 1]
                  /\ cyc_log' = Append(cyc_log, Log(IF result THEN "insert_ok" ELSE "insert_err",
                                                    h, "-", r.sync_ips))
             ELSE /\ cyc_log' = Append(cyc_log, Log("insert_err", h, "-", r.sync_ips))
                  /\ UNCHANGED <<cur_req, ips_left, sync_pc, open_count>>
    /\ UNCHANGED <<nodeVars, latest_height, responses, canon, cyc_proposed, sync_late, advVars>>

\* block_requests is exhausted: the cycle ends.
SyncEndCycle ==
    /\ task_st["sync"] = "running"
    /\ sync_pc = "for"
    /\ block_requests = <<>>
    /\ sync_pc' = "top"
    /\ UNCHANGED <<nodeVars, latest_height, poolVars, block_requests, cur_req, ips_left, cyc_log, cyc_proposed, open_count, sync_late, advVars>>

\* What a failed send does to the in-flight requests:
\* validator.router.sync().remove_block_request(height)
\* (a faulty variant the properties must reject: the request left in flight)
OnSendFailureMut(reqs, h) == reqs
OnSendFailure(reqs, h) == RemoveBlockRequest(reqs, h)

\* `break 'outer`: where the loop goes on after a failed send, the top of the loop.
\* (a faulty variant the properties must reject: the failure ends the loop)
BreakOuterMut == "done"
BreakOuter == "top"

\* `break 'outer` leaves both for loops: the requests of block_requests not yet
\* iterated are dropped and the loop goes on at BreakOuter.
\* (a faulty variant the properties must reject: a break of the inner loop alone)
AfterFailedSendMut(rest) == [pc |-> "sleep10", rest |-> rest]
AfterFailedSend(rest) == [pc |-> BreakOuter, rest |-> <<>>]

\* validator.send(sync_ip, message) to the next peer: Some, or None and then the
\* request is removed and `break 'outer` ends the cycle.
SyncSend ==
    /\ task_st["sync"] = "running"
    /\ sync_pc = "send"
    /\ ips_left # <<>>
    /\ LET h == cur_req[1].height
           p == Head(ips_left)
       IN \E sent \in BOOLEAN :
            IF sent
            THEN /\ ips_left' = Tail(ips_left)
                 /\ cyc_log' = Append(cyc_log, Log("send_ok", h, p, <<>>))
                 /\ UNCHANGED <<requests, sync_pc, block_requests, cur_req, open_count>>
            ELSE /\ requests' = OnSendFailure(requests, h)
                 /\ open_count' = [open_count EXCEPT ![h] = IF requests'[h] = <<>> THEN 0 ELSE @]
                 /\ cyc_log' = Append(cyc_log, Log("send_fail", h, p, <<>>))
                 /\ block_requests' = AfterFailedSend(block_requests).rest
                 /\ cur_req' = <<>>
                 /\ ips_left' = <<>>
                 /\ sync_pc' = AfterFailedSend(block_requests).pc
    /\ UNCHANGED <<nodeVars, latest_height, responses, canon, cyc_proposed, sync_late, advVars>>

\* Every send returned Some: the sleep of 10 milliseconds begins.
SyncSent ==
    /\ task_st["sync"] = "running"
    /\ sync_pc = "send"
    /\ ips_left = <<>>
    /\ sync_pc' = "sleep10"
    /\ cur_req' = <<>>
    /\ UNCHANGED <<nodeVars, latest_height, poolVars, block_requests, ips_left, cyc_log, cyc_proposed, open_count, sync_late, advVars>>

\* The sleep of 10 milliseconds returns.
SyncSleep10 ==
    /\ task_st["sync"] = "running"
    /\ ~handle_aborted["sync"]
    /\ sync_pc = "sleep10"
    /\ sync_pc' = "for"
    /\ UNCHANGED <<nodeVars, latest_height, poolVars, block_requests, cur_req, ips_left, cyc_log, cyc_proposed, open_count, sync_late, advVars>>

SyncLoop ==
    \/ SyncTop
    \/ SyncPrepare
    \/ SyncInsert
    \/ SyncEndCycle
    \/ SyncSend
    \/ SyncSent
    \/ SyncSleep10

\* ------------------------------------------------------------- advance_with_sync_blocks()
\* The number of contiguous queued responses above height h that pass every step of
\* the advancement.
RECURSIVE RunLen(_, _)
RunLen(resp, h) ==
    IF h + 1 \in Heights /\ resp[h + 1] # <<>>
       /\ resp[h + 1][1].height = h + 1 /\ resp[h + 1][1].fate = "ok"
    THEN 1 + RunLen(resp, h + 1)
    ELSE 0

\* advance_with_sync_blocks returns: its locals are dropped.
AdvReturn(why) ==
    /\ adv_pc' = "idle"
    /\ current_height' = 0
    /\ adv_block' = <<>>
    /\ adv_last' = why
    /\ IF adv_quiet
       THEN UNCHANGED <<adv_start, adv_committed, adv_run>>
       ELSE adv_start' = 0 /\ adv_committed' = <<>> /\ adv_run' = 0
    /\ UNCHANGED adv_quiet

\* let mut current_height = self.ledger.latest_height();
AdvStart ==
    /\ new_pc = "ok"
    /\ adv_pc = "idle"
    /\ current_height' = latest_height
    /\ adv_pc' = "pop"
    /\ adv_block' = <<>>
    /\ adv_start' = latest_height
    /\ adv_committed' = <<>>
    /\ adv_run' = RunLen(responses, latest_height)
    /\ adv_quiet' = TRUE
    /\ adv_last' = "none"
    /\ UNCHANGED <<nodeVars, latest_height, poolVars, syncVars>>

\* remove_block_response(height): the queued response, which leaves the pool together
\* with the in-flight request it answers.
RemoveBlockResponse(resp, h) == IF h \in Heights THEN resp[h] ELSE <<>>

\* while let Some(block) = self.router.sync().remove_block_response(current_height + 1)
AdvPop ==
    /\ adv_pc = "pop"
    /\ LET h == current_height + 1
           popped == RemoveBlockResponse(responses, h)
       IN IF popped = <<>>
          THEN /\ AdvReturn("empty")
               /\ UNCHANGED <<responses, requests, open_count>>
          ELSE /\ adv_pc' = "check"
               /\ adv_block' = popped
               /\ responses' = [responses EXCEPT ![h] = <<>>]
               /\ requests' = RemoveBlockRequest(requests, h)
               /\ open_count' = [open_count EXCEPT ![h] = 0]
               /\ UNCHANGED <<current_height, adv_start, adv_committed, adv_run, adv_quiet, adv_last>>
    /\ UNCHANGED <<nodeVars, latest_height, canon, sync_pc, block_requests, cur_req, ips_left, cyc_log,
                   cyc_proposed, sync_late>>

\* if block.height() != current_height + 1 { break; }
\* (a faulty variant the properties must reject: no height check)
HeightMatchesMut(b, expected) == TRUE
HeightMatches(b, expected) == b.height = expected

\* self.ledger.check_next_block(&block): the block is valid and is the ledger's next
CheckNextBlock(b, latest) == b.fate # "invalid" /\ b.height = latest + 1

\* The height check, then check_next_block; either failing breaks out of the loop.
AdvCheck ==
    /\ adv_pc = "check"
    /\ LET b == adv_block[1]
       IN IF ~HeightMatches(b, current_height + 1)
          THEN AdvReturn("mismatch")
          ELSE IF ~CheckNextBlock(b, latest_height)
          THEN AdvReturn("check_err")
          ELSE /\ adv_pc' = "append"
               /\ UNCHANGED <<current_height, adv_block, adv_start, adv_committed, adv_run,
                              adv_quiet, adv_last>>
    /\ UNCHANGED <<nodeVars, latest_height, poolVars, syncVars>>

\* advance_to_next_block(&block): Ok when the ledger can append the block as its next
AdvanceToNextBlock(b, latest) == b.fate = "ok" /\ b.height = latest + 1

\* `if let Err(error) = ..advance_to_next_block(&block) { warn!(..); break; }`
\* (a faulty variant the properties must reject: the error is not looked at)
AppendFailedMut(ok) == FALSE
AppendFailed(ok) == ~ok

\* self.consensus.ledger().advance_to_next_block(&block); an Err breaks out of the loop.
AdvAppend ==
    /\ adv_pc = "append"
    /\ LET b == adv_block[1]
           ok == AdvanceToNextBlock(b, latest_height)
       IN IF ~AppendFailed(ok)
          THEN /\ latest_height' = IF ok THEN latest_height + 1 ELSE latest_height
               /\ adv_committed' = IF ok THEN Append(adv_committed, b) ELSE adv_committed
               /\ adv_pc' = "canon"
               /\ UNCHANGED <<current_height, adv_block, adv_start, adv_run, adv_quiet, adv_last>>
          ELSE /\ AdvReturn("append_err")
               /\ UNCHANGED latest_height
    /\ UNCHANGED <<nodeVars, poolVars, syncVars>>

\* insert_canon_locator(height, hash)
InsertCanonLocator(c, h, x) == [c EXCEPT ![h] = <<x>>]

\* current_height += 1
\* (a faulty variant the properties must reject: current_height not incremented)
IncrementHeightMut(h) == h
IncrementHeight(h) == h + 1

\* The block's height and hash become canon, and current_height += 1.
AdvCanon ==
    /\ adv_pc = "canon"
    /\ canon' = InsertCanonLocator(canon, adv_block[1].height, adv_block[1].hash)
    /\ current_height' = IncrementHeight(current_height)
    /\ adv_pc' = "pop"
    /\ UNCHANGED <<nodeVars, latest_height, requests, responses, syncVars,
                   adv_block, adv_start, adv_committed, adv_run, adv_quiet, adv_last>>

Advance ==
    \/ AdvStart
    \/ AdvPop
    \/ AdvCheck
    \/ AdvAppend
    \/ AdvCanon

\* ------------------------------------------------------------- the node built by new()
vars == <<nodeVars, syncSide>>

Init == InitNode /\ InitSyncSide

Next ==
    \/ New
    \/ TxStart
    \/ TxWake
    \/ TxExecute
    \/ TxBroadcast
    \/ Tasks
    \/ ShutDown

Spec == Init /\ [][Next]_vars

\* ------------------------------------------------------------- the node with its sync loop
\* The node as new() returns it (dev, cdn and rest_ip None): the state Spec reaches
\* when every step of new() succeeded.
InitBuilt ==
    /\ dev = <<>>
    /\ new_pc = "ok"
    /\ new_err = "none"
    /\ signal_node = TRUE
    /\ shutdown = FALSE
    /\ handles = <<"tx">>
    /\ task_st = [t \in TaskIds |-> IF t = "tx" THEN "running" ELSE "unspawned"]
    /\ handle_aborted = [t \in TaskIds |-> FALSE]
    /\ handles_lock = <<>>
    /\ router_st = "up"
    /\ consensus_st = "running"
    /\ sd_pc = [c \in Callers |-> "idle"]
    /\ sd_again = [c \in Callers |-> FALSE]
    /\ sd_pre = [c \in Callers |-> {}]
    /\ sd_log = [c \in Callers |-> <<>>]
    /\ tx_pc = "start"
    /\ tx_last = "none"
    /\ tx_executed = FALSE
    /\ tx_broadcast = FALSE
    /\ tx_began_set = FALSE

\* A well-formed block of a height that the ledger accepts.
GoodBlock(h) == [height |-> h, hash |-> BlockHash(h), fate |-> "ok"]

\* The responses a peer may queue under height h: well-formed blocks that the ledger
\* accepts, refuses to check or fails to append, and a block of another height.
BlocksFor(h) ==
    {[height |-> h, hash |-> BlockHash(h), fate |-> f] : f \in Fates}
    \cup {GoodBlock(h + 1)}

\* The sync loop started by initialize_sync, peers answering, and the advancement.
InitSync == InitBuilt /\ InitSyncSide

NextSync ==
    \/ InitializeSync
    \/ SyncLoop
    \/ \E h \in ReqHeights : DeliverResponse(h, GoodBlock(h))
    \/ Advance

SpecSync == InitSync /\ [][NextSync]_vars

\* The same, the runtime scheduling the sync task whenever it can take a step.  The
\* loop of initialize_sync holds no call of advance_with_sync_blocks, so nothing
\* schedules the advancement.
SpecSyncFair == SpecSync /\ WF_vars(SyncLoop)

\* The sync loop started by initialize_sync on the built node and the owner of the
\* node shutting it down; the runtime schedules the sync task whenever it can take
\* a step.
InitStop == InitBuilt /\ InitSyncSide

NextStop ==
    \/ InitializeSync
    \/ SyncLoop
    \/ ShutDownBy("caller")
    \/ Cancel("sync")

SpecStop == InitStop /\ [][NextStop]_vars /\ WF_vars(SyncLoop)

\* The sync loop alone, the pool proposing requests for any heights of the ledger
\* in one cycle.
InitCycle == InitBuilt /\ InitSyncSide

SyncCycle ==
    \/ SyncTop
    \/ SyncPrepareFrom(PrepareOver(Heights))
    \/ SyncInsert
    \/ SyncEndCycle
    \/ SyncSend
    \/ SyncSent
    \/ SyncSleep10

NextCycle ==
    \/ InitializeSync
    \/ SyncCycle

SpecCycle == InitCycle /\ [][NextCycle]_vars

\* The advancement against any queued responses, the consensus appending to the
\* same ledger.
InitAdvance == InitBuilt /\ InitSyncSide

NextAdvance ==
    \/ \E h \in Heights : \E b \in BlocksFor(h) : DeliverResponse(h, b)
    \/ ConsensusAppend
    \/ Advance

SpecAdvance == InitAdvance /\ [][NextAdvance]_vars

\* ------------------------------------------------------------- claims of the node
IsPrefix(s, t) == Len(s) <= Len(t) /\ \A i \in 1..Len(s) : s[i] = t[i]
SdOrder == <<"store", "abort", "router", "router_wait", "consensus", "consensus_wait">>

\* C5: when a call of shut_down has returned, the shutdown flag reads true and every
\* handle that was registered before the call began is aborted or its task is over.
C5_ShutdownCompleteness ==
    \A c \in Callers :
        sd_pc[c] = "done" => shutdown /\ \A t \in sd_pre[c] : Stopped(t)

C5_Witness ==
    \E c \in Callers :
        /\ sd_pc[c] = "done"
        /\ sd_pre[c] = {"tx", "u1"}
        /\ handle_aborted["tx"]
        /\ task_st["u1"] = "finished"

\* C6: the steps of one call of shut_down happen in the order flag, abort pass,
\* router shutdown begun and returned, consensus shutdown begun and returned; the
\* flag is set once the first step is done, the handles registered before the call
\* are stopped once the second is done, and the router is down whenever the
\* consensus shutdown has begun.
C6_ShutdownOrder ==
    \A c \in Callers :
        /\ IsPrefix(sd_log[c], SdOrder)
        /\ Len(sd_log[c]) >= 1 => shutdown
        /\ Len(sd_log[c]) >= 2 => \A t \in sd_pre[c] : Stopped(t)
        /\ Len(sd_log[c]) >= 5 => router_st = "down"

C6_Witness ==
    /\ sd_log["caller"] = SdOrder
    /\ sd_pc["signal"] = "router_wait"

\* C8: with dev = Some(d), d # 0, the transaction loop has executed and broadcast
\* nothing, however many cycles it ran (each of them skipped); with dev = None or
\* Some(0) no cycle skipped: each one that woke called execute.
C8_SingleProducer ==
    IF dev \in {<<d>> : d \in 1..MaxDev}
    THEN ~tx_executed /\ ~tx_broadcast /\ tx_pc \in {"off", "start", "sleep"} /\ tx_last \in {"none", "skip"}
    ELSE tx_last # "skip" /\ (tx_last # "none" => tx_executed)

C8_Witness ==
    /\ dev = <<1>>
    /\ tx_last = "skip"

\* C9 (as claimed): when new() has returned an error, the node was not published,
\* no later step has run and no task the constructor started is running.
C9_AllOrNothing ==
    new_pc = "err" =>
        /\ ~signal_node
        /\ new_err \in {"ledger", "cdn", "consensus_new"} => consensus_st = "none"
        /\ new_err \in {"ledger", "cdn", "consensus_new", "consensus_run", "router"} => router_st = "none"
        /\ \A t \in TaskIds : task_st[t] # "running"

\* C10: on a node that a call of shut_down has left shut down (flag true, every
\* registered handle stopped), no step of a further or concurrent call of shut_down
\* changes the flag, the handles or what became of any task.
C10_Idempotent ==
    [][ ( /\ \E c \in Callers : sd_pc[c] = "done"
          /\ shutdown
          /\ \A t \in Range(handles) : Stopped(t)
          /\ sd_pc' # sd_pc )
        => Observable' = Observable ]_vars

C10_Witness ==
    /\ \E c \in Callers : sd_again[c] /\ sd_pc[c] = "done"
    /\ Range(handles) = {"tx", "u1"}
    /\ handle_aborted["tx"]
    /\ task_st["u1"] = "finished"
    /\ ~handle_aborted["u1"]

\* C17: the transaction task never ends by itself and, while it runs unaborted, its
\* next step can always be taken; the loop is in its broadcast only after execute
\* returned Ok in the same cycle; a cycle whose execute returned Err goes back to the
\* sleep without a broadcast; unconfirmed_transaction is called only as execute
\* returns Ok, and whatever its outcome the loop goes back to the sleep of the next
\* cycle.
C17_TxLoopGoesOn ==
    /\ [] /\ task_st["tx"] # "finished"
          /\ task_st["tx"] = "cancelled" => handle_aborted["tx"]
          /\ tx_pc = "broadcast" => ( tx_last = "exec_ok" /\ tx_broadcast )
          /\ ( task_st["tx"] = "running" /\ ~handle_aborted["tx"] )
                => ENABLED (TxStart \/ TxWake \/ TxExecute \/ TxBroadcast)
    /\ [][ /\ ( tx_pc = "execute" /\ tx_pc' # tx_pc /\ tx_last' = "exec_err" )
                => ( tx_pc' = "sleep" /\ tx_broadcast' = tx_broadcast )
           /\ tx_broadcast' # tx_broadcast
                => ( tx_pc = "execute" /\ tx_pc' = "broadcast" /\ tx_last' = "exec_ok" )
           /\ ( tx_pc = "broadcast" /\ tx_pc' # tx_pc ) => tx_pc' = "sleep"
         ]_vars

C17_Witness ==
    /\ tx_pc = "sleep"
    /\ tx_last = "exec_err"
    /\ tx_broadcast
    /\ task_st["tx"] = "running"
    /\ ~handle_aborted["tx"]

\* C18: the lock of the handles is free whenever a spawn or a call of shut_down is
\* between two statements or suspended at an await, so a spawn on the built node can
\* always proceed whatever shut_down calls are under way; a handle is in the Vec
\* exactly when its task was started; and the abort pass is one critical section:
\* it leaves the Vec as it was and every handle in it stopped, so a spawn comes
\* entirely before it (and is aborted) or entirely after it.
C18_LockNotAcrossAwait ==
    /\ [] /\ handles_lock = <<>>
          /\ \A t \in TaskIds : (new_pc = "ok" /\ NextToSpawn(t)) => ENABLED Spawn(t)
          /\ \A c \in Callers : sd_pc[c] = "abort" => ENABLED SdAbort(c)
          /\ new_pc \notin {"ledger", "cdn", "consensus_new", "consensus_run", "router", "node"}
                => \A t \in TaskIds : (t \in Range(handles)) <=> (task_st[t] # "unspawned")
    /\ [][ \A c \in Callers :
             ( sd_pc[c] = "abort" /\ sd_pc'[c] # "abort" )
                => ( handles' = handles /\ \A t \in Range(handles) : Stopped(t)' ) ]_vars

C18_Witness ==
    /\ sd_pc["caller"] = "router_wait"
    /\ sd_pc["signal"] = "abort"
    /\ handles = <<"tx", "u1">>
    /\ handle_aborted["tx"]
    /\ task_st["u1"] = "running"
    /\ ~handle_aborted["u1"]

\* C19: the shutdown flag is false until the node is handed out (published to the
\* signal handler or returned by new()); only the store of a call of shut_down
\* changes it, to true; and once true it stays true.
C19_FlagMonotonic ==
    /\ []( ( ~signal_node /\ new_pc # "ok" ) => ~shutdown )
    /\ [][ /\ shutdown => shutdown'
           /\ shutdown' # shutdown =>
                 \E c \in Callers : sd_pc[c] = "store" /\ sd_pc'[c] = "abort" ]_vars

C19_Witness ==
    /\ shutdown
    /\ sd_pc["caller"] = "done"
    /\ sd_again["signal"]
    /\ sd_pc["signal"] = "abort"

\* C20: new() does not start the synchronization loop. At the step in which new()
\* returns Ok the handle set holds the transaction loop alone; and in every state of
\* the node new() builds the sync task is unspawned and out of the handle set, no step
\* of the sync loop can be taken, the SyncPool holds no block request, no request was
\* sent to a peer, and no run of advance_with_sync_blocks is under way.
C20_NoSyncLoop ==
    /\ [](/\ sync_pc = "off"
          /\ task_st["sync"] = "unspawned"
          /\ "sync" \notin Range(handles)
          /\ ~ENABLED SyncLoop
          /\ \A h \in Heights : requests[h] = <<>> /\ open_count[h] = 0
          /\ cyc_log = <<>>
          /\ adv_pc = "idle")
    /\ [][ (new_pc # "ok" /\ new_pc' = "ok") => handles' = <<"tx">> ]_vars

C20_Witness ==
    /\ new_pc = "ok"
    /\ signal_node
    /\ handles = <<"tx", UserTaskNames[1]>>
    /\ tx_pc = "broadcast"
    /\ task_st["sync"] = "unspawned"
    /\ sync_pc = "off"

\* C21: a failed send for height h ends the dispatch of the whole cycle.  In the
\* failing step no request but h's changes in the pool; and once the cycle's record
\* holds the failure it is the last thing recorded, nothing is left to iterate, each
\* height proposed after h has no insertion and no send in the cycle, and each height
\* proposed before h is in flight: one the cycle inserted, with its own peers and a
\* send done to each of them in order, one refused, with no send in the cycle.
C21_BreakEndsCycle ==
    /\ [](\A i \in 1..Len(cyc_log) :
            cyc_log[i].ev = "send_fail" =>
               LET h == cyc_log[i].height
               IN /\ i = Len(cyc_log)
                  /\ sync_pc = "top"
                  /\ block_requests = <<>>
                  /\ cur_req = <<>>
                  /\ \E hp \in 1..Len(cyc_proposed) :
                        /\ cyc_proposed[hp].height = h
                        /\ \A k \in (hp + 1)..Len(cyc_proposed) :
                              \A j \in 1..Len(cyc_log) : cyc_log[j].height # cyc_proposed[k].height
                        /\ \A k \in 1..(hp - 1) :
                              LET g == cyc_proposed[k].height
                                  ips == cyc_proposed[k].sync_ips
                              IN \E j \in 1..Len(cyc_log) :
                                    /\ cyc_log[j].height = g
                                    /\ requests[g] # <<>>
                                    /\ \/ /\ cyc_log[j].ev = "insert_ok"
                                          /\ requests[g] = <<ips>>
                                          /\ j + Len(ips) < i
                                          /\ \A n \in 1..Len(ips) :
                                                cyc_log[j + n] = Log("send_ok", g, ips[n], <<>>)
                                       \/ /\ cyc_log[j].ev = "insert_err"
                                          /\ \A n \in 1..Len(cyc_log) :
                                                n # j => cyc_log[n].height # g)
    /\ [][ ( Len(cyc_log') = Len(cyc_log) + 1 /\ cyc_log'[Len(cyc_log')].ev = "send_fail" )
            => \A g \in Heights :
                  g # cyc_log'[Len(cyc_log')].height => requests'[g] = requests[g] ]_vars

C21_Witness ==
    /\ Len(cyc_proposed) = 3
    /\ Len(cyc_log) = 5
    /\ cyc_log[1].ev = "insert_ok" /\ cyc_log[1].height = 1
    /\ Len(cyc_proposed[1].sync_ips) = 2
    /\ requests[1] = <<cyc_proposed[1].sync_ips>>
    /\ cyc_log[4].ev = "insert_ok" /\ cyc_log[4].height = 2
    /\ cyc_log[5].ev = "send_fail" /\ cyc_log[5].height = 2
    /\ requests[2] = <<>>
    /\ cyc_proposed[3].height = 3
    /\ requests[3] = <<>>

\* C22: the handle set only grows.  Every step leaves the registered handles in
\* place, at most appending one; the step that appends a handle starts its task,
\* unaborted, whatever the shutdown flag reads, and a holder of the built node can
\* spawn a task not yet spawned in every state, the flag set or not; a handle becomes
\* aborted only in the abort pass of a shut_down call, which finds it registered.
C22_HandlesOnlyGrow ==
    /\ [][ IsPrefix(handles, handles') /\ Len(handles') <= Len(handles) + 1 ]_vars
    /\ [][ \A t \in TaskIds :
              handles' = Append(handles, t)
                 => task_st'[t] = "running" /\ ~handle_aborted'[t] /\ shutdown' = shutdown ]_vars
    /\ [](\A t \in UserTasks :
             (new_pc = "ok" /\ NextToSpawn(t)) => ENABLED Spawn(t))
    /\ [][ \A t \in TaskIds :
              (handle_aborted'[t] /\ ~handle_aborted[t])
                 => /\ t \in Range(handles)
                    /\ \E c \in Callers : sd_pc[c] = "abort" /\ sd_pc'[c] = SdAfter("abort") ]_vars

C22_Witness ==
    /\ shutdown
    /\ sd_pc["caller"] = "done"
    /\ sd_pc["signal"] = "idle"
    /\ UserTaskNames[1] \notin sd_pre["caller"]
    /\ handles = <<"tx", UserTaskNames[1]>>
    /\ handle_aborted["tx"]
    /\ task_st[UserTaskNames[1]] = "running"
    /\ ~handle_aborted[UserTaskNames[1]]

\* C12 (as claimed): an iteration of the transaction loop that began with the shutdown
\* flag true executes nothing, so none is in its broadcast phase; and a sync loop that
\* is past the top of an iteration read the flag false there, or ended.
C12_CooperativeCancel ==
    /\ tx_pc = "broadcast" => ~tx_began_set
    /\ sync_pc = "done" => shutdown

\* ------------------------------------------------------------- claims of the sync loop
\* C1: for every height, the sync loop holds at most one registration that neither
\* remove_block_request nor the consumption of the height's response has closed.
C1_AtMostOneInFlight ==
    \A h \in Heights : open_count[h] <= 1

C1_Witness ==
    \E i \in 1..Len(cyc_log) :
        /\ cyc_log[i].ev = "insert_err"
        /\ open_count[cyc_log[i].height] = 1

\* The peers the message for height h was sent to in the current cycle.
SentOk(h) == {cyc_log[j].peer : j \in {k \in 1..Len(cyc_log) : cyc_log[k].ev = "send_ok" /\ cyc_log[k].height = h}}

\* C4: after a send for height h failed in a cycle, h is not in flight and no further
\* send for h is in that cycle; and when the cycle is over every height registered in
\* it is either not in flight or its message went to every one of its peers.
C4_AllOrNothing ==
    /\ \A i \in 1..Len(cyc_log) :
        cyc_log[i].ev = "send_fail" =>
            /\ requests[cyc_log[i].height] = <<>>
            /\ \A j \in (i + 1)..Len(cyc_log) :
                ~(cyc_log[j].ev \in {"send_ok", "send_fail"} /\ cyc_log[j].height = cyc_log[i].height)
    /\ sync_pc \in {"top", "sleep", "done"} =>
        \A i \in 1..Len(cyc_log) :
            cyc_log[i].ev = "insert_ok" =>
                \/ requests[cyc_log[i].height] = <<>>
                \/ SentOk(cyc_log[i].height) = Range(cyc_log[i].ips)

C4_Witness ==
    /\ sync_pc = "top"
    /\ Len(cyc_log) = 2
    /\ cyc_log[1].ev = "insert_ok" /\ cyc_log[1].height = 1 /\ cyc_log[1].ips = <<"A", "B">>
    /\ cyc_log[2].ev = "send_fail" /\ cyc_log[2].peer = "A"
    /\ requests[1] = <<>>
    /\ latest_height = 0

\* C15: a cycle sends the message for a height only after that height's registration
\* succeeded in the same cycle; a refused registration is followed by no send for
\* the height in the cycle, and the step that met the refusal leaves the in-flight
\* requests as they were and goes on with the cycle's next request.
C15_RefusedIsNoOp ==
    /\ [](\A j \in 1..Len(cyc_log) :
            /\ cyc_log[j].ev \in {"send_ok", "send_fail"} =>
                  \E i \in 1..(j - 1) :
                      cyc_log[i].ev = "insert_ok" /\ cyc_log[i].height = cyc_log[j].height
            /\ cyc_log[j].ev = "insert_err" =>
                  \A k \in (j + 1)..Len(cyc_log) :
                      ~(cyc_log[k].ev \in {"send_ok", "send_fail"} /\ cyc_log[k].height = cyc_log[j].height))
    /\ [][ ( /\ Len(cyc_log') = Len(cyc_log) + 1
             /\ cyc_log'[Len(cyc_log')].ev = "insert_err" )
           => ( requests' = requests /\ sync_pc' = "for" /\ cur_req' = cur_req ) ]_vars

C15_Witness ==
    /\ sync_pc = "top"
    /\ Len(cyc_log) = 1
    /\ cyc_log[1].ev = "insert_err"
    /\ requests[cyc_log[1].height] = <<cyc_log[1].ips>>
    /\ responses[cyc_log[1].height] # <<>>

\* C16: once the shutdown flag is set the sync loop begins at most one more dispatch
\* (the one of the iteration whose flag check came before), a loop at the top of an
\* iteration with the flag set ends, and, its task being scheduled, the loop is
\* eventually over unless its handle is aborted first.
C16_BoundedCancel ==
    /\ [][ /\ ( shutdown /\ sync_pc = "sleep" /\ sync_pc' = "for" ) => ~sync_late
           /\ ( shutdown /\ sync_pc \in {"start", "top"} /\ sync_pc' # sync_pc ) => sync_pc' = "done" ]_vars
    /\ ( shutdown /\ sync_pc # "off" ) ~> ( sync_pc = "done" \/ handle_aborted["sync"] )

C16_Witness ==
    /\ sync_pc = "done"
    /\ sync_late
    /\ task_st["sync"] = "finished"
    /\ ~handle_aborted["sync"]
    /\ cyc_log # <<>>
    /\ sd_pc["caller"] = "done"

\* C11: with the shutdown flag false and the task not aborted, the sync loop never
\* exits and its task never ends, and whatever a cycle met (a refused registration,
\* a failed send, no request at all) the loop comes back to the top and begins
\* another cycle.
C11_NothingFatal ==
    /\ [](( ~shutdown /\ ~handle_aborted["sync"] ) =>
            ( sync_pc # "done" /\ task_st["sync"] \notin {"finished", "cancelled"} ))
    /\ []( sync_pc # "off" => <>(sync_pc = "sleep" \/ shutdown \/ handle_aborted["sync"]) )
    /\ []( sync_pc = "sleep" => <>(sync_pc = "for" \/ handle_aborted["sync"]) )

C11_Witness ==
    /\ sync_pc = "top"
    /\ \E i \in 1..Len(cyc_log) : cyc_log[i].ev = "send_fail"
    /\ \E i \in 1..Len(cyc_log) : cyc_log[i].ev = "send_ok"
    /\ task_st["sync"] = "running"
    /\ ~shutdown

\* C13 (as claimed): while the sync loop runs, a valid response for latest_height + 1
\* that sits in the pool is eventually committed to the ledger (the loop attempting
\* an advancement in every cycle).
C13_AdvanceEveryCycle ==
    \A h \in Heights :
        ( sync_pc # "off" /\ latest_height = h - 1 /\ responses[h] = <<GoodBlock(h)>> )
            ~> ( latest_height >= h )

\* ------------------------------------------------------------- claims of the advancement
\* C2 (as claimed): whenever the advancement is about to call advance_to_next_block,
\* the block's height is the ledger's latest_height + 1.
C2_MonotonicCommit ==
    adv_pc = "append" => adv_block[1].height = latest_height + 1

\* C14: every canon locator the advancement inserted is of a height the ledger has
\* reached; a locator is inserted only by the step that follows a successful
\* advance_to_next_block, for the block just appended; a refusal of check_next_block
\* ends the advancement with the ledger and the locators unchanged and the popped
\* block not put back into the pool; an Err of advance_to_next_block ends it with no locator inserted.
C14_CanonAfterCommit ==
    /\ [](\A h \in Heights : canon[h] # <<>> => h <= latest_height)
    /\ [][ /\ \A h \in Heights :
                canon'[h] # canon[h] =>
                    /\ adv_pc = "canon"
                    /\ adv_block[1] = [height |-> h, hash |-> canon'[h][1], fate |-> "ok"]
                    /\ adv_committed # <<>>
                    /\ adv_committed[Len(adv_committed)] = adv_block[1]
           /\ ( adv_pc = "check" /\ adv_pc' # "check" /\ ~CheckNextBlock(adv_block[1], latest_height) )
                => ( /\ adv_pc' = "idle"
                     /\ latest_height' = latest_height
                     /\ canon' = canon
                     /\ responses' = responses )
           /\ ( adv_pc = "append" /\ adv_pc' # "append" /\ latest_height' = latest_height )
                => ( adv_pc' = "idle" /\ canon' = canon )
         ]_vars

C14_Witness ==
    /\ adv_pc = "idle"
    /\ adv_last = "append_err"
    /\ Len(adv_committed) = 1
    /\ canon[latest_height] # <<>>
    /\ canon[latest_height + 1] = <<>>

\* C3: the step that finds the popped block's height different from
\* current_height + 1 ends the advancement and changes neither the ledger height nor
\* the canon locators nor the queued responses; and the pop before it left no
\* response under that height.
C3_AbortOnMismatch ==
    [][ /\ ( adv_pc = "check" /\ adv_pc' # "check" /\ adv_block[1].height # current_height + 1 )
           => ( /\ adv_pc' = "idle"
                /\ latest_height' = latest_height
                /\ canon' = canon
                /\ responses' = responses )
        /\ ( adv_pc = "pop" /\ adv_pc' = "check" )
           => responses'[current_height + 1] = <<>>
      ]_vars

C3_Witness ==
    /\ adv_pc = "idle"
    /\ adv_last = "mismatch"
    /\ Len(adv_committed) = 1
    /\ latest_height = adv_start + 1
    /\ canon[latest_height + 1] = <<>>
    /\ responses[latest_height + 1] = <<>>

\* C7: the blocks one advancement appended are those of heights H+1, H+2, .. in this
\* order, H being the ledger height it began at; each appended block's height and
\* hash are canon once its locator is inserted; an advancement that ran with no
\* response arriving and no one else appending has, when it ends, appended exactly
\* the run of contiguous valid responses that was queued above H; and no step of the
\* advancement touches a response of another height than current_height + 1.
C7_GreedyInOrder ==
    /\ [] /\ \A i \in 1..Len(adv_committed) :
                /\ adv_committed[i].height = adv_start + i
                /\ (i < Len(adv_committed) \/ adv_pc # "canon")
                    => canon[adv_start + i] = <<adv_committed[i].hash>>
          /\ adv_quiet => Len(adv_committed) <= adv_run
          /\ (adv_quiet /\ adv_pc = "idle") =>
                /\ Len(adv_committed) = adv_run
                /\ latest_height = adv_start + adv_run
    /\ [][ adv_pc' # adv_pc =>
             \A h \in Heights : h # current_height + 1 => responses'[h] = responses[h] ]_vars

C7_Witness ==
    /\ adv_pc = "idle"
    /\ adv_quiet
    /\ Len(adv_committed) = 1
    /\ adv_start + 3 \in Heights
    /\ responses[adv_start + 2] = <<>>
    /\ responses[adv_start + 3] # <<>>

====
